---- MODULE Spec2Model ----
(***************************************************************************)
(* Model of the Wanderer math / physics core:                              *)
(*   src/src/math.ts  - Vector2, WTransformMatrix3, clamp                  *)
(*   src/js/math.js   - WPhysicsModel and the constraint classes           *)
(*                                                                         *)
(* Numbers.  A JavaScript number is modelled as a pair <<n, d>>:           *)
(*   d > 0   the rational n/d in lowest terms,                             *)
(*   <<1,0>> +Infinity,  <<-1,0>> -Infinity,  <<0,0>> NaN.                 *)
(* The arithmetic operators follow IEEE-754 for the special values         *)
(* (Infinity * 0 = NaN, x / 0 = +-Infinity, 0 / 0 = NaN, comparisons with  *)
(* NaN are false).  Rounding of finite results and the sign of zero are    *)
(* not modelled: finite results are exact.  A square root is taken only    *)
(* of rationals that have a rational root; the actions that need one are   *)
(* explored on the configurations where that is so (see Exact...).         *)
(***************************************************************************)
EXTENDS Integers, Sequences, FiniteSets, TLC

\* ------------------------------------------------------------------ numbers

NaN == <<0, 0>>
PInf == <<1, 0>>
NInf == <<-1, 0>>

AbsInt(n) == IF n < 0 THEN -n ELSE n

RECURSIVE GCD(_, _)
GCD(a, b) == IF b = 0 THEN a ELSE GCD(b, a % b)

\* the rational n/d (d # 0) in lowest terms with a positive denominator
Rat(n, d) ==
    LET g == GCD(AbsInt(n), AbsInt(d))
        s == IF d < 0 THEN -1 ELSE 1
    IN  <<(s * n) \div g, (s * d) \div g>>

\* the element of a one-element set; { e(v) : v \in {x} } evaluates x once
The(S) == CHOOSE v \in S : TRUE

Num(n) == <<n, 1>>
Zero == Num(0)
One == Num(1)

IsNaN(a) == a = NaN
IsInf(a) == a[2] = 0 /\ a[1] # 0
\* Number.isFinite
IsFinite(a) == a[2] # 0
\* the sign of a number that is not NaN: -1, 0, 1
Sgn(a) == IF a[1] < 0 THEN -1 ELSE IF a[1] > 0 THEN 1 ELSE 0

LCM(a, b) == (a \div GCD(a, b)) * b

\* a + b
AddNum(a, b) ==
    IF IsNaN(a) \/ IsNaN(b) THEN NaN
    ELSE IF IsInf(a) THEN (IF IsInf(b) /\ b # a THEN NaN ELSE a)
    ELSE IF IsInf(b) THEN b
    ELSE LET l == LCM(a[2], b[2])
         IN  Rat(a[1] * (l \div a[2]) + b[1] * (l \div b[2]), l)
Add(x, y) == The({AddNum(a, b) : a \in {x}, b \in {y}})

\* -a
Neg(a) == <<-a[1], a[2]>>

\* a - b
Sub(a, b) == Add(a, The({Neg(v) : v \in {b}}))

\* the product of two rationals, cancelling before multiplying
MulRat(a, b) ==
    LET g1 == GCD(AbsInt(a[1]), b[2])
        g2 == GCD(AbsInt(b[1]), a[2])
    IN  <<(a[1] \div g1) * (b[1] \div g2), (a[2] \div g2) * (b[2] \div g1)>>

\* a * b
MulNum(a, b) ==
    IF IsNaN(a) \/ IsNaN(b) THEN NaN
    ELSE IF IsInf(a) \/ IsInf(b)
         THEN (IF Sgn(a) * Sgn(b) = 0 THEN NaN ELSE <<Sgn(a) * Sgn(b), 0>>)
    ELSE MulRat(a, b)
Mul(x, y) == The({MulNum(a, b) : a \in {x}, b \in {y}})

\* a / b
DivNum(a, b) ==
    IF IsNaN(a) \/ IsNaN(b) THEN NaN
    ELSE IF IsInf(a) THEN (IF IsInf(b) THEN NaN
                           ELSE <<Sgn(a) * (IF Sgn(b) < 0 THEN -1 ELSE 1), 0>>)
    ELSE IF IsInf(b) THEN Zero
    ELSE IF b[1] = 0 THEN (IF a[1] = 0 THEN NaN ELSE <<Sgn(a), 0>>)
    ELSE MulRat(a, <<Sgn(b) * b[2], AbsInt(b[1])>>)
Div(x, y) == The({DivNum(a, b) : a \in {x}, b \in {y}})

\* a < b, a > b (false when either is NaN)
LtNum(a, b) ==
    /\ ~IsNaN(a) /\ ~IsNaN(b) /\ a # b
    /\ IF IsInf(a) THEN a = NInf
       ELSE IF IsInf(b) THEN b = PInf
       ELSE a[1] * b[2] < b[1] * a[2]
Lt(x, y) == The({LtNum(a, b) : a \in {x}, b \in {y}})
Gt(a, b) == Lt(b, a)
Le(x, y) == The({~IsNaN(a) /\ ~IsNaN(b) /\ (a = b \/ LtNum(a, b)) : a \in {x}, b \in {y}})

\* Math.max, Math.min (NaN when either argument is NaN)
MathMax(x, y) ==
    The({IF IsNaN(a) \/ IsNaN(b) THEN NaN ELSE IF LtNum(a, b) THEN b ELSE a : a \in {x}, b \in {y}})
MathMin(x, y) ==
    The({IF IsNaN(a) \/ IsNaN(b) THEN NaN ELSE IF LtNum(b, a) THEN b ELSE a : a \in {x}, b \in {y}})

\* the largest r in lo..hi with r * r <= n
RECURSIVE SqrtFloor(_, _, _)
SqrtFloor(n, lo, hi) ==
    IF lo >= hi THEN lo
    ELSE LET mid == (lo + hi + 1) \div 2
             up == mid * mid <= n
         IN  SqrtFloor(n, IF up THEN mid ELSE lo, IF up THEN hi ELSE mid - 1)

\* squares are taken of integers below 2 * RootCap only
RootCap == 2 * 11585
ISqrt(n) == SqrtFloor(n, 0, IF n < 2 * RootCap THEN n ELSE 2 * RootCap)
IsSquare(n) == ISqrt(n) * ISqrt(n) = n

\* sqrt(x^2 + y^2) of two rationals a/b and c/d as <<g, n, l>>: it is
\* g * sqrt(n) / l, with l the common denominator and g the common factor of
\* the two numerators
RootParts(x, y) ==
    LET l == LCM(x[2], y[2])
        p == AbsInt(x[1]) * (l \div x[2])
        q == AbsInt(y[1]) * (l \div y[2])
        g == IF p = 0 /\ q = 0 THEN 1 ELSE GCD(p, q)
    IN  <<g, p \div g, q \div g, l>>

\* whether that root is rational (and within 32-bit integers)
ExactHypotNum(x, y) ==
    IsFinite(x) /\ IsFinite(y) =>
        LET w == RootParts(x, y)
        IN  /\ w[2] < RootCap /\ w[3] < RootCap
            /\ IsSquare(w[2] * w[2] + w[3] * w[3])
ExactHypot(p, q) == The({ExactHypotNum(x, y) : x \in {p}, y \in {q}})

RootOfSquares(x, y) ==
    LET w == RootParts(x, y)
    IN  Rat(w[1] * ISqrt(w[2] * w[2] + w[3] * w[3]), w[4])

\* Math.hypot(x, y): Infinity when either is infinite, else NaN when either is NaN
HypotNum(x, y) ==
    IF IsInf(x) \/ IsInf(y) THEN PInf
    ELSE IF IsNaN(x) \/ IsNaN(y) THEN NaN
    ELSE RootOfSquares(x, y)
Hypot(p, q) == The({HypotNum(x, y) : x \in {p}, y \in {q}})

\* Math.sqrt(x ** 2 + y ** 2)
SqrtSumSqNum(x, y) ==
    IF IsNaN(x) \/ IsNaN(y) THEN NaN
    ELSE IF IsInf(x) \/ IsInf(y) THEN PInf
    ELSE RootOfSquares(x, y)
SqrtSumSq(p, q) == The({SqrtSumSqNum(x, y) : x \in {p}, y \in {q}})

\* clamp(value, min, max) = Math.min(Math.max(min, value), max)
clamp(value, min, max) == MathMin(MathMax(min, value), max)

\* ------------------------------------------------------------------ Vector2

vec2(x, y) == [x |-> x, y |-> y]

\* vec2(x) with y omitted: y ?? x
vec1(x) == vec2(x, x)

\* Vector2.add(v): in-place accumulation, here the new value of the receiver
add(a, v) == vec2(Add(a.x, v.x), Add(a.y, v.y))

\* Vector2.sum(v) (sum() with no argument is a copy)
sum(a, v) == vec2(Add(a.x, v.x), Add(a.y, v.y))

\* Vector2.dif(v)
dif(a, v) == vec2(Sub(a.x, v.x), Sub(a.y, v.y))

\* Vector2.scale(n)
scale(a, n) == The({vec2(Mul(v.x, m), Mul(v.y, m)) : v \in {a}, m \in {n}})

\* Vector2.neg
neg(a) == vec2(Neg(a.x), Neg(a.y))

\* Vector2.length
length(a) == Hypot(a.x, a.y)

\* Vector2.size: read by the constraints; the Euclidean norm |A|
size(a) == Hypot(a.x, a.y)

\* Vector2.norm = scale(1 / length)
norm(a) == The({scale(v, Div(One, length(v))) : v \in {a}})

ExactVec(a) == ExactHypot(a.x, a.y)

\* ------------------------------------------------------------------ angles
\* An angle is modelled by the unit vector (cos, sin) of it, so Math.cos,
\* Math.sin and Math.tan read it off and Math.atan2 / Math.atan normalise.

Angle0 == vec2(One, Zero)
AngleNaN == vec2(NaN, NaN)
HalfPi == vec2(Zero, One)

\* Math.atan2(y, x); atan2(0, 0) = 0
Atan2(y, x) ==
    IF IsNaN(x) \/ IsNaN(y) THEN AngleNaN
    ELSE IF IsInf(x) /\ IsInf(y) THEN AngleNaN
    ELSE IF IsInf(x) THEN vec2(Num(Sgn(x)), Zero)
    ELSE IF IsInf(y) THEN vec2(Zero, Num(Sgn(y)))
    ELSE IF x = Zero /\ y = Zero THEN Angle0
    ELSE LET h == Hypot(x, y) IN vec2(Div(x, h), Div(y, h))

\* Math.atan(t): the angle in [-pi/2, pi/2] whose tangent is t
Atan(t) ==
    IF IsNaN(t) THEN AngleNaN
    ELSE IF IsInf(t) THEN vec2(Zero, Num(Sgn(t)))
    ELSE LET h == Hypot(One, t) IN vec2(Div(One, h), Div(t, h))

\* Math.cos, Math.sin, Math.tan
Cos(A) == A.x
Sin(A) == A.y
Tan(A) == Div(A.y, A.x)

\* A + B, A - B, -A on angles
AngleAdd(A, B) ==
    vec2(Sub(Mul(A.x, B.x), Mul(A.y, B.y)), Add(Mul(A.x, B.y), Mul(A.y, B.x)))
AngleNeg(A) == vec2(A.x, Neg(A.y))
AngleSub(A, B) == AngleAdd(A, AngleNeg(B))

\* Vector2.rotation = Math.atan2(y, x)
rotation(a) == Atan2(a.y, a.x)

\* Vector2.fromDegree(degree, length = 1) of src/src/math.ts
fromDegree(degree, len) == vec2(Mul(len, Cos(degree)), Mul(len, Sin(degree)))

\* ------------------------------------------------------- WTransformMatrix3
\* [translate, direct, skew, scale, data]: the four private fields and the
\* nine coefficients of #data.

\* calcMatrix()
calcMatrix(T) ==
    The({ LET tx == t.translate.x  ty == t.translate.y
              rx == t.direct.x     ry == t.direct.y
              sx == t.scale.x      sy == t.scale.y
              k  == t.skew
          IN  [t EXCEPT !.data =
                  << Mul(rx, sx), Mul(ry, sx), Zero,
                     Mul(Sub(Mul(rx, k), ry), sy), Mul(Add(Mul(ry, k), rx), sy), Zero,
                     tx, ty, One >>] : t \in {T} })

\* whether the square roots calcFields takes of these coefficients are rational
ExactData(data) == \A m \in {data} : ExactHypot(m[1], m[2]) /\ ExactHypot(m[4], m[5])

\* faulty variant: scale.y without the Math.cos(sk) factor
calcFields_NoCos(T) ==
    The({ LET m11 == t.data[1]  m12 == t.data[2]
              m21 == t.data[4]  m22 == t.data[5]
              m31 == t.data[7]  m32 == t.data[8]
          IN  The({ The({ [t EXCEPT
                              !.direct = direct,
                              !.skew = Neg(Tan(sk)),
                              !.scale = vec2(SqrtSumSq(m11, m12), SqrtSumSq(m21, m22)),
                              !.translate = vec2(m31, m32)]
                          : sk \in {AngleSub(AngleSub(Atan2(m22, m21), HalfPi),
                                             rotation(direct))} })
                    : direct \in {norm(vec2(m11, m12))} })
          : t \in {T} })

\* calcFields()
calcFields(T) ==
    The({ LET m11 == t.data[1]  m12 == t.data[2]
              m21 == t.data[4]  m22 == t.data[5]
              m31 == t.data[7]  m32 == t.data[8]
          IN  The({ The({ [t EXCEPT
                              !.direct = direct,
                              !.skew = Neg(Tan(sk)),
                              !.scale = vec2(SqrtSumSq(m11, m12),
                                             Mul(SqrtSumSq(m21, m22), Cos(sk))),
                              !.translate = vec2(m31, m32)]
                          : sk \in {AngleSub(AngleSub(Atan2(m22, m21), HalfPi),
                                             rotation(direct))} })
                    : direct \in {norm(vec2(m11, m12))} })
          : t \in {T} })

\* new WTransformMatrix3({translate, rotate, skew, scale})
NewTransform(tr, rot, sk, sc) ==
    calcMatrix([translate |-> tr, direct |-> fromDegree(rot, One),
                skew |-> Tan(sk), scale |-> sc,
                data |-> <<Zero, Zero, Zero, Zero, Zero, Zero, Zero, Zero, Zero>>])

translateX(T, x) == calcMatrix([T EXCEPT !.translate.x = x])
translateY(T, y) == calcMatrix([T EXCEPT !.translate.y = y])
translate(T, x, y) == calcMatrix([T EXCEPT !.translate = vec2(x, y)])
\* rotate(r)
rotate(T, r) == calcMatrix([T EXCEPT !.direct = fromDegree(r, One)])
\* rotate(x, y)
rotateXY(T, x, y) == calcMatrix([T EXCEPT !.direct = norm(vec2(x, y))])
scaleX(T, sx) == calcMatrix([T EXCEPT !.scale.x = sx])
scaleY(T, sy) == calcMatrix([T EXCEPT !.scale.y = sy])
\* scale(sx, sy)
tScale(T, sx, sy) == calcMatrix([T EXCEPT !.scale = vec2(sx, sy)])
\* skew(k)
tSkew(T, k) == calcMatrix([T EXCEPT !.skew = Tan(k)])
\* matrix(a, b, c, d, e, f)
matrix(T, a, b, c, d, e, f) ==
    calcFields([T EXCEPT !.data = <<a, b, Zero, c, d, Zero, e, f, One>>])

\* the getters t, r, s, k
get_t(T) == T.translate
get_r(T) == rotation(T.direct)
get_s(T) == T.scale
get_k(T) == Atan(T.skew)

\* copy(): an independent deep clone
copy(T) == T

\* setArray(nine floats): replace the coefficients wholesale, then calcFields
setArray(T, arr) == calcFields([T EXCEPT !.data = arr])

\* the coefficients of this o other: the 3x3 product, WMatrix3.mult's formula
\* on the column-major coefficients
multData(a, b) ==
    The({ LET A(c, w) == p[3 * c + w + 1]
              B(c, w) == q[3 * c + w + 1]
              R(c, w) == Add(Add(Mul(A(0, w), B(c, 0)), Mul(A(1, w), B(c, 1))),
                             Mul(A(2, w), B(c, 2)))
          IN  << R(0, 0), R(0, 1), R(0, 2),
                 R(1, 0), R(1, 1), R(1, 2),
                 R(2, 0), R(2, 1), R(2, 2) >> : p \in {a}, q \in {b} })

\* mult(other): a new transform holding this o other
tMult(T, other) == setArray(T, multData(T.data, other.data))

\* ----------------------------------------------------------- WPhysicsModel
\* [local, global, velocity, acceleration, force, mass]

applyForce(B, force) == [B EXCEPT !.force = add(@, force)]
applyAcceleration(B, acceleration) == [B EXCEPT !.acceleration = add(@, acceleration)]
applyVelocity(B, velocity) == [B EXCEPT !.velocity = add(@, velocity)]

\* move(displacement)
move(B, displacement) ==
    LET p == sum(get_t(B.local), displacement)
    IN  [B EXCEPT !.local = translate(@, p.x, p.y)]

\* faulty variant: the force accumulator is carried over to the next tick
ResetAccumulators_KeepForce(B) == [B EXCEPT !.acceleration = vec1(Zero)]

\* the two accumulators as updateLocation leaves them
ResetAccumulators(B) == [B EXCEPT !.acceleration = vec1(Zero), !.force = vec1(Zero)]

\* faulty variant: only the translation is copied into global
SyncGlobal_TranslateOnly(B) ==
    [B EXCEPT !.global = translate(@, B.local.translate.x, B.local.translate.y)]

\* global.setArray(new Float32Array(local.buffer))
SyncGlobal(B) == [B EXCEPT !.global = setArray(@, B.local.data)]

\* updateLocation(dt)
updateLocation(B, dt) ==
    LET B1 == applyAcceleration(B, scale(B.force, Div(One, B.mass)))
        B2 == applyVelocity(B1, scale(B1.acceleration, dt))
        B3 == move(B2, scale(B2.velocity, dt))
    IN  SyncGlobal(ResetAccumulators(B3))

\* new WPhysicsModel({location, rotation, scale, skew, mass, velocity, acceleration})
NewBody(location, rot, sc, sk, mass, velocity, acceleration) ==
    LET loc == NewTransform(location, rot, sk, sc)
    IN  updateLocation([local |-> loc, global |-> copy(loc),
                        velocity |-> velocity, acceleration |-> acceleration,
                        force |-> vec1(Zero), mass |-> mass], Zero)

\* ------------------------------------------------------------- constraints
\* A solve() maps the two bodies [owner, target] to their new values.

\* faulty variant: the relativity is ignored
Select_AlwaysGlobal(B, relativity) == B.global

\* the transform a relativity selects
Select(B, relativity) == IF relativity = "local" THEN B.local ELSE B.global

\* faulty variant: the two forces are applied to the wrong bodies
SpringSolve_Swapped(bs, L0, ks) ==
    LET diff == dif(get_t(bs.owner.global), get_t(bs.target.global))
        dl == size(diff)
        f == Mul(ks, Sub(dl, L0))
        F_ba == scale(diff, Div(f, IF dl = Zero \/ IsNaN(dl) THEN PInf ELSE dl))
    IN  [owner |-> applyForce(bs.owner, F_ba), target |-> applyForce(bs.target, neg(F_ba))]

\* WSpring.solve()
SpringSolve(bs, L0, ks) ==
    LET diff == dif(get_t(bs.owner.global), get_t(bs.target.global))
        dl == size(diff)
        x == Sub(dl, L0)
        f == Mul(ks, x)
        \* dl || Infinity: 0 and NaN are falsy
        F_ba == scale(diff, Div(f, IF dl = Zero \/ IsNaN(dl) THEN PInf ELSE dl))
        F_ab == neg(F_ba)
    IN  [owner |-> applyForce(bs.owner, F_ab), target |-> applyForce(bs.target, F_ba)]

\* faulty variant: each body's share is its own mass over the sum
RopeShares_OwnMass(m1, m2) ==
    LET total == Add(m1, m2)
    IN  IF IsFinite(m1)
        THEN (IF IsFinite(m2) THEN <<Div(m1, total), Div(m2, total)>> ELSE <<One, Zero>>)
        ELSE (IF IsFinite(m2) THEN <<Zero, One>> ELSE <<Zero, Zero>>)

\* faulty variant: the infinite body takes the whole correction
RopeShares_InfiniteMoves(m1, m2) ==
    LET total == Add(m1, m2)
    IN  IF IsFinite(m1)
        THEN (IF IsFinite(m2) THEN <<Div(m2, total), Div(m1, total)>> ELSE <<Zero, One>>)
        ELSE (IF IsFinite(m2) THEN <<One, Zero>> ELSE <<Zero, Zero>>)

\* the shares r1 (owner) and r2 (target) of the overshoot, WRope.solve()
RopeShares(m1, m2) ==
    LET total == Add(m1, m2)
    IN  IF IsFinite(m1)
        THEN (IF IsFinite(m2) THEN <<Div(m2, total), Div(m1, total)>> ELSE <<One, Zero>>)
        ELSE (IF IsFinite(m2) THEN <<Zero, One>> ELSE <<Zero, Zero>>)

\* WRope.solve()
RopeSolve(bs, len, bounce) ==
    LET dir == dif(get_t(bs.target.global), get_t(bs.owner.global))
        diff == size(dir)
    IN  IF Gt(diff, len)
        THEN LET rr == RopeShares(bs.owner.mass, bs.target.mass)
                 mv == scale(dir, Div(Sub(diff, len), diff))
                 m1 == scale(mv, rr[1])
                 m2 == scale(mv, Neg(rr[2]))
             IN  [owner  |-> applyAcceleration(move(bs.owner, m1), scale(m1, bounce)),
                  target |-> applyAcceleration(move(bs.target, m2), scale(m2, bounce))]
        ELSE bs

\* whether LimitDistanceConstraint.solve() corrects for this signed violation
Breaches(clampRegion, diff) ==
    \/ clampRegion = "inside" /\ Gt(diff, Zero)
    \/ clampRegion = "outside" /\ Lt(diff, Zero)
    \/ clampRegion = "surface" /\ diff # Zero

\* LimitDistanceConstraint.solve()
LimitDistanceSolve(bs, distance, clampRegion, ownerRelativity, targetRelativity) ==
    LET og == bs.owner.global
        o == Select(bs.owner, ownerRelativity)
        tg == Select(bs.target, targetRelativity)
        dir == dif(get_t(tg), get_t(o))
        dist == size(dir)
        diff == Sub(dist, distance)
    IN  IF Breaches(clampRegion, diff)
        THEN LET p == sum(scale(dir, Div(diff, dist)), get_t(og))
             IN  [bs EXCEPT !.owner.global = translate(og, p.x, p.y)]
        ELSE bs

\* faulty variant: an unknown mixMode falls back to 'replace'
CopyTransformsSolve_Fallback(bs, mixMode, ownerRelativity, targetRelativity) ==
    <<[bs EXCEPT !.owner.global =
            setArray(@, Select(bs.target, targetRelativity).data)], "">>

\* CopyTransformsConstraint.solve(): <<the bodies, the error thrown or "">>
CopyTransformsSolve(bs, mixMode, ownerRelativity, targetRelativity) ==
    LET og == bs.owner.global
        o == Select(bs.owner, ownerRelativity)
        tg == Select(bs.target, targetRelativity)
        set(G) == [bs EXCEPT !.owner.global = G]
    IN  CASE mixMode = "replace" -> <<set(setArray(og, tg.data)), "">>
          [] mixMode = "split" ->
                <<set(calcMatrix([og EXCEPT
                        !.scale = vec2(Mul(tg.scale.x, o.scale.x), Mul(tg.scale.y, o.scale.y)),
                        !.skew = Tan(AngleAdd(get_k(tg), get_k(o))),
                        !.direct = fromDegree(AngleAdd(get_r(tg), get_r(o)), One),
                        !.translate = vec2(Add(tg.translate.x, o.translate.x),
                                           Add(tg.translate.y, o.translate.y))])), "">>
          [] mixMode = "beforeFull" -> <<set(setArray(og, tMult(tg, o).data)), "">>
          [] mixMode = "afterFull" -> <<set(setArray(og, tMult(o, tg).data)), "">>
          [] OTHER -> <<bs, "Invalid mix mode">>

\* new LimitLocationConstraint(owner, {ownerRelativity, influence, minX, minY, maxX, maxY})
NewLimitLocation(ownerRelativity, influence, minX, minY, maxX, maxY) ==
    [ownerRelativity |-> ownerRelativity, influence |-> influence,
     min |-> vec2(minX, minY), max |-> vec2(maxX, maxY)]

\* set influence(v)
SetInfluence(L, v) == [L EXCEPT !.influence = clamp(v, Zero, One)]

\* the correction LimitLocationConstraint.solve() computes on one axis
AxisCorrection(minT, maxT) ==
    IF Gt(minT, Zero) THEN (IF Lt(maxT, Zero) THEN Zero ELSE minT)
    ELSE IF Lt(maxT, Zero) THEN maxT
    ELSE Zero

\* LimitLocationConstraint.solve()
LimitLocationSolve(bs, L) ==
    LET og == bs.owner.global
        o == Select(bs.owner, L.ownerRelativity)
        minT == dif(L.min, get_t(o))
        maxT == dif(L.max, get_t(o))
        tx == AxisCorrection(minT.x, maxT.x)
        ty == AxisCorrection(minT.y, maxT.y)
    IN  [bs EXCEPT !.owner.global =
            translate(og, Add(og.translate.x, Mul(tx, L.influence)),
                          Add(og.translate.y, Mul(ty, L.influence)))]

\* ------------------------------------------------------------ state machine

VARIABLES
    bodies,   \* [owner, target]: the two WPhysicsModel objects
    limit,    \* the LimitLocationConstraint on the owner
    last,     \* the call made last, with its arguments
    prev,     \* the objects of the scene before that call
    steps,    \* the number of calls made
    transform,  \* a WTransformMatrix3 that is mutated directly
    heap,       \* Vector2 objects, transforms and bodies by address
    curve,      \* a bezier(x1, y1, x2, y2) closure and the interpolators it made
    matrices    \* WMatrix3 objects by name

vars == <<bodies, limit, last, prev, steps, transform, heap, curve, matrices>>

\* the objects a scene does not have
NoPhysics == bodies = <<>> /\ limit = <<>>
NoTransform == transform = <<>>
NoHeap == heap = <<>>
NoCurve == curve = <<>>
NoMatrices == matrices = <<>>

\* the longest run of calls explored
MaxSteps == 3

Names == {"owner", "target"}
Relativities == {"local", "global"}

V(x, y) == vec2(Num(x), Num(y))
\* the angle whose cosine and sine are 3/5 and 4/5
Angle35 == vec2(Rat(3, 5), Rat(4, 5))
\* the angle whose tangent is 3/4
Angle45 == vec2(Rat(4, 5), Rat(3, 5))

\* the arguments the calls are explored with
\* <<owner.mass, target.mass>>
MassPairs == {<<One, One>>, <<One, Num(3)>>, <<PInf, One>>, <<One, PInf>>, <<PInf, PInf>>}
TargetLocations == {V(9, 0), V(6, 8), V(0, 0)}
Pushes == {V(2, 0)}
Dts == {Zero, One}
\* <<L0, ks>>
SpringConfigs == {<<Num(10), Num(2)>>}
\* <<length, bounce>>
RopeConfigs == {<<Num(5), One>>}
Distances == {Num(5)}
ClampRegions == {"inside", "outside", "surface"}

Call(op, newBodies) ==
    /\ steps < MaxSteps
    /\ bodies' = newBodies
    /\ prev' = bodies
    /\ last' = op
    /\ steps' = steps + 1
    /\ UNCHANGED <<transform, heap, curve, matrices>>

DefaultLimit == NewLimitLocation("global", One, NInf, NInf, PInf, PInf)

Init ==
    /\ \E m \in MassPairs, loc \in TargetLocations :
          bodies = [owner  |-> NewBody(V(0, 0), Angle0, vec1(One), Angle0, m[1],
                                       vec1(Zero), vec1(Zero)),
                    target |-> NewBody(loc, Angle35, V(2, 1), Angle0, m[2],
                                       vec1(Zero), vec1(Zero))]
    /\ limit = DefaultLimit
    /\ last = [op |-> "new"]
    /\ prev = bodies
    /\ steps = 0
    /\ NoTransform /\ NoHeap /\ NoCurve /\ NoMatrices

ApplyForce(b, v) ==
    /\ Call([op |-> "applyForce", who |-> b, v |-> v],
            [bodies EXCEPT ![b] = applyForce(@, v)])
    /\ UNCHANGED limit

ApplyAcceleration(b, v) ==
    /\ Call([op |-> "applyAcceleration", who |-> b, v |-> v],
            [bodies EXCEPT ![b] = applyAcceleration(@, v)])
    /\ UNCHANGED limit

ApplyVelocity(b, v) ==
    /\ Call([op |-> "applyVelocity", who |-> b, v |-> v],
            [bodies EXCEPT ![b] = applyVelocity(@, v)])
    /\ UNCHANGED limit

UpdateLocation(b, dt) ==
    /\ ExactData(bodies[b].local.data)
    /\ Call([op |-> "updateLocation", who |-> b, dt |-> dt],
            [bodies EXCEPT ![b] = updateLocation(@, dt)])
    /\ UNCHANGED limit

Spring(L0, ks) ==
    /\ ExactVec(dif(get_t(bodies.owner.global), get_t(bodies.target.global)))
    /\ Call([op |-> "spring", L0 |-> L0, ks |-> ks], SpringSolve(bodies, L0, ks))
    /\ UNCHANGED limit

Rope(len, bounce) ==
    /\ ExactVec(dif(get_t(bodies.target.global), get_t(bodies.owner.global)))
    /\ Call([op |-> "rope", length |-> len, bounce |-> bounce],
            RopeSolve(bodies, len, bounce))
    /\ UNCHANGED limit

LimitDistance(distance, clampRegion, ownerRelativity, targetRelativity) ==
    /\ ExactVec(dif(get_t(Select(bodies.target, targetRelativity)),
                    get_t(Select(bodies.owner, ownerRelativity))))
    /\ Call([op |-> "limitDistance", distance |-> distance, clampRegion |-> clampRegion,
             ownerRelativity |-> ownerRelativity, targetRelativity |-> targetRelativity],
            LimitDistanceSolve(bodies, distance, clampRegion, ownerRelativity,
                               targetRelativity))
    /\ UNCHANGED limit

Next ==
    \/ \E b \in Names, v \in Pushes : ApplyForce(b, v)
    \/ \E b \in Names, v \in Pushes : ApplyAcceleration(b, v)
    \/ \E b \in Names, v \in Pushes : ApplyVelocity(b, v)
    \/ \E b \in Names, dt \in Dts : UpdateLocation(b, dt)
    \/ \E c \in SpringConfigs : Spring(c[1], c[2])
    \/ \E c \in RopeConfigs : Rope(c[1], c[2])
    \/ \E d \in Distances, cr \in ClampRegions :
          LimitDistance(d, cr, "global", "global")

Spec == Init /\ [][Next]_vars

\* ---------------------------------------------- the copy-transforms scene

MixModes == {"replace", "split", "beforeFull", "afterFull", "mix"}

\* the largest numerator and denominator of a coefficient that is multiplied
MaxCoeff == 50
SmallData(data) ==
    \A i \in 1..9 : IsFinite(data[i]) =>
        AbsInt(data[i][1]) <= MaxCoeff /\ data[i][2] <= MaxCoeff

\* the square roots a CopyTransforms solve takes are rational
ExactCopy(bs, mixMode, ownerRelativity, targetRelativity) ==
    LET o == Select(bs.owner, ownerRelativity)
        tg == Select(bs.target, targetRelativity)
    IN  /\ SmallData(o.data) /\ SmallData(tg.data) /\ SmallData(bs.owner.global.data)
        /\ CASE mixMode = "replace" -> ExactData(tg.data)
          [] mixMode = "split" ->
                /\ ExactHypot(One, tg.skew) /\ ExactHypot(One, o.skew)
                /\ ExactVec(tg.direct) /\ ExactVec(o.direct)
          [] mixMode = "beforeFull" -> ExactData(multData(tg.data, o.data))
          [] mixMode = "afterFull" -> ExactData(multData(o.data, tg.data))
          [] OTHER -> TRUE

CopyTransforms(mixMode, ownerRelativity, targetRelativity) ==
    /\ ExactCopy(bodies, mixMode, ownerRelativity, targetRelativity)
    /\ \E res \in {CopyTransformsSolve(bodies, mixMode, ownerRelativity, targetRelativity)} :
           Call([op |-> "copyTransforms", mixMode |-> mixMode,
                 ownerRelativity |-> ownerRelativity,
                 targetRelativity |-> targetRelativity, error |-> res[2]], res[1])
    /\ UNCHANGED limit

\* the two bodies with their roles exchanged
Swap(bs) == [owner |-> bs.target, target |-> bs.owner]

CopyOwner == NewBody(V(1, 2), Angle0, vec1(One), Angle0, One, V(1, 0), vec1(Zero))
CopyTarget == NewBody(V(4, 6), Angle35, V(2, 1), Angle45, One, V(0, 1), vec1(Zero))
CopyScene == [owner |-> CopyOwner, target |-> CopyTarget]

\* The scene as constructed, or after a 'replace' constraint owned by the
\* target has copied the owner's pose into the target's global transform.
InitCopy ==
    /\ bodies \in {CopyScene,
                   Swap(CopyTransformsSolve(Swap(CopyScene), "replace", "global", "global")[1])}
    /\ limit = DefaultLimit
    /\ last = [op |-> "new"]
    /\ prev = bodies
    /\ steps = 0
    /\ NoTransform /\ NoHeap /\ NoCurve /\ NoMatrices

NextCopy ==
    \/ \E b \in Names : UpdateLocation(b, One)
    \/ \E m \in MixModes, orel \in Relativities, trel \in Relativities :
          CopyTransforms(m, orel, trel)

SpecCopy == InitCopy /\ [][NextCopy]_vars

\* ----------------------------------------------- the limit-location scene

Influences == {Num(-1), Zero, Rat(1, 2), One, Num(2)}
\* <<minX, minY, maxX, maxY>>: the default box and a finite one
Boxes == {<<NInf, NInf, PInf, PInf>>, <<Num(2), Num(-1), Num(5), One>>}

SetInfluenceCall(v) ==
    /\ steps < MaxSteps
    /\ limit' = SetInfluence(limit, v)
    /\ last' = [op |-> "setInfluence", v |-> v]
    /\ prev' = bodies
    /\ steps' = steps + 1
    /\ UNCHANGED <<bodies, transform, heap, curve, matrices>>

LimitLocation ==
    /\ Call([op |-> "limitLocation"], LimitLocationSolve(bodies, limit))
    /\ UNCHANGED limit

LimitOwner == NewBody(V(0, 0), Angle0, vec1(One), Angle0, One, V(7, 4), vec1(Zero))

InitLimit ==
    /\ bodies = [owner |-> LimitOwner, target |-> CopyTarget]
    /\ \E orel \in Relativities, i \in Influences, box \in Boxes :
          limit = NewLimitLocation(orel, i, box[1], box[2], box[3], box[4])
    /\ last = [op |-> "new"]
    /\ prev = bodies
    /\ steps = 0
    /\ NoTransform /\ NoHeap /\ NoCurve /\ NoMatrices

NextLimit ==
    \/ \E v \in Influences : SetInfluenceCall(v)
    \/ LimitLocation
    \/ UpdateLocation("owner", One)

SpecLimit == InitLimit /\ [][NextLimit]_vars

\* -------------------------------------------- the limit-distance scene
\* LimitDistance with every relativity, between calls that make local and
\* global differ.

FarDistances == {Num(5), Num(15)}

InitDistance ==
    /\ \E loc \in TargetLocations :
          bodies = [owner  |-> NewBody(V(0, 0), Angle0, vec1(One), Angle0, One,
                                       vec1(Zero), vec1(Zero)),
                    target |-> NewBody(loc, Angle0, vec1(One), Angle0, One,
                                       vec1(Zero), vec1(Zero))]
    /\ limit = DefaultLimit
    /\ last = [op |-> "new"]
    /\ prev = bodies
    /\ steps = 0
    /\ NoTransform /\ NoHeap /\ NoCurve /\ NoMatrices

NextDistance ==
    \/ \E d \in FarDistances, cr \in ClampRegions,
          orel \in Relativities, trel \in Relativities : LimitDistance(d, cr, orel, trel)
    \/ \E c \in RopeConfigs : Rope(c[1], c[2])
    \/ \E b \in Names : UpdateLocation(b, One)

SpecDistance == InitDistance /\ [][NextDistance]_vars

\* ------------------------------------------------- the transform scene
\* One WTransformMatrix3, mutated through its canonical mutators, its
\* coefficient setters, matrix(), and the public calcMatrix() / calcFields().

\* set a(v) ... set f(v): write one coefficient, then calcFields()
set_a(T, v) == calcFields([T EXCEPT !.data[1] = v])
set_b(T, v) == calcFields([T EXCEPT !.data[2] = v])
set_c(T, v) == calcFields([T EXCEPT !.data[4] = v])
set_d(T, v) == calcFields([T EXCEPT !.data[5] = v])
set_e(T, v) == calcFields([T EXCEPT !.data[7] = v])
set_f(T, v) == calcFields([T EXCEPT !.data[8] = v])

\* the angle sk that calcFields() computes from these coefficients
SkewAngle(data) ==
    The({AngleSub(AngleSub(Atan2(m[5], m[4]), HalfPi), rotation(norm(vec2(m[1], m[2]))))
         : m \in {data}})

\* Math.tan and Math.cos of sk are finite and non-zero in floating point
\* even where sk is mathematically a right angle; the exact numbers here
\* are not, so calcFields() is explored away from right angles.
Oblique(data) == Cos(SkewAngle(data)) # Zero

\* calcFields() on these coefficients is computed faithfully
FaithfulFields(data) == ExactData(data) /\ Oblique(data)

CanonicalOps ==
    {"translateX", "translateY", "translate", "rotate", "scaleX", "scaleY", "scale", "skew"}
CoefficientOps == {"a", "b", "c", "d", "e", "f", "matrix"}

CallOn(op, newTransform) ==
    /\ steps < MaxSteps
    /\ transform' = newTransform
    /\ prev' = transform
    /\ last' = op
    /\ steps' = steps + 1

\* what a call on the transform leaves alone
Elsewhere == <<bodies, limit, heap, curve, matrices>>

\* the canonical mutators, each with the arguments it is explored with
TranslateX ==
    /\ CallOn([op |-> "translateX"], translateX(transform, Num(5)))
    /\ UNCHANGED Elsewhere

TranslateY ==
    /\ CallOn([op |-> "translateY"], translateY(transform, Num(7)))
    /\ UNCHANGED Elsewhere

Translate ==
    /\ CallOn([op |-> "translate"], translate(transform, One, Num(2)))
    /\ UNCHANGED Elsewhere

Rotate ==
    /\ \E r \in {Angle35} : CallOn([op |-> "rotate"], rotate(transform, r))
    /\ UNCHANGED Elsewhere

RotateXY ==
    /\ CallOn([op |-> "rotate"], rotateXY(transform, Zero, Num(2)))
    /\ UNCHANGED Elsewhere

ScaleX ==
    /\ \E sx \in {Zero, Num(2)} : CallOn([op |-> "scaleX"], scaleX(transform, sx))
    /\ UNCHANGED Elsewhere

ScaleY ==
    /\ \E sy \in {Zero} : CallOn([op |-> "scaleY"], scaleY(transform, sy))
    /\ UNCHANGED Elsewhere

Scale ==
    /\ CallOn([op |-> "scale"], tScale(transform, Num(2), Num(3)))
    /\ UNCHANGED Elsewhere

Skew ==
    /\ \E k \in {Angle45} : CallOn([op |-> "skew"], tSkew(transform, k))
    /\ UNCHANGED Elsewhere

\* the coefficient writes: <<setter, value>>
Writes ==
    {<<"a", Zero>>, <<"a", Num(3)>>, <<"b", Num(4)>>, <<"c", Num(-4)>>,
     <<"d", Num(3)>>, <<"e", One>>, <<"f", Num(2)>>}

Written(T, w) ==
    CASE w[1] = "a" -> set_a(T, w[2])
      [] w[1] = "b" -> set_b(T, w[2])
      [] w[1] = "c" -> set_c(T, w[2])
      [] w[1] = "d" -> set_d(T, w[2])
      [] w[1] = "e" -> set_e(T, w[2])
      [] w[1] = "f" -> set_f(T, w[2])

\* the index in #data that a setter writes
Slot(name) ==
    CASE name = "a" -> 1 [] name = "b" -> 2 [] name = "c" -> 4
      [] name = "d" -> 5 [] name = "e" -> 7 [] name = "f" -> 8

SetCoefficient(w) ==
    /\ FaithfulFields([transform.data EXCEPT ![Slot(w[1])] = w[2]])
    /\ CallOn([op |-> w[1], v |-> w[2]], Written(transform, w))
    /\ UNCHANGED Elsewhere

\* the coefficients matrix(a, b, c, d, e, f) is called with
Matrices == {<<Num(3), Num(4), Num(-4), Num(3), One, Num(2)>>,
             <<Zero, Zero, Zero, One, Zero, Zero>>}

Matrix(m) ==
    /\ FaithfulFields(<<m[1], m[2], Zero, m[3], m[4], Zero, m[5], m[6], One>>)
    /\ CallOn([op |-> "matrix"], matrix(transform, m[1], m[2], m[3], m[4], m[5], m[6]))
    /\ UNCHANGED Elsewhere

CalcMatrix ==
    /\ CallOn([op |-> "calcMatrix"], calcMatrix(transform))
    /\ UNCHANGED Elsewhere

CalcFields ==
    /\ FaithfulFields(transform.data)
    /\ CallOn([op |-> "calcFields"], calcFields(transform))
    /\ UNCHANGED Elsewhere

InitTransform ==
    /\ transform \in {NewTransform(V(0, 0), Angle0, Angle0, vec1(One)),
                      NewTransform(V(1, 2), Angle35, Angle45, V(2, 1))}
    /\ last = [op |-> "new"]
    /\ prev = transform
    /\ steps = 0
    /\ NoPhysics /\ NoHeap /\ NoCurve /\ NoMatrices

NextTransform ==
    \/ TranslateX \/ TranslateY \/ Translate
    \/ Rotate \/ RotateXY
    \/ ScaleX \/ ScaleY \/ Scale
    \/ Skew
    \/ \E w \in Writes : SetCoefficient(w)
    \/ \E m \in Matrices : Matrix(m)
    \/ CalcMatrix
    \/ CalcFields

SpecTransform == InitTransform /\ [][NextTransform]_vars

\* --------------------------------------------- the shared-vector scene
\* Vector2 objects by address: vec is the sequence of all Vector2 objects
\* made so far, and a transform holds the addresses of its #translate and
\* #scale (its #direct is only ever replaced, so it is held by value).  A
\* method returns [vec, o]: the Vector2 objects and the receiver after it.

\* a new Vector2: its address is Len(vec) + 1
Alloc(vec, v) == Append(vec, v)

\* the transform with its two Vector2 fields read through their addresses
Deref(vec, T) ==
    [translate |-> vec[T.translate], direct |-> T.direct, skew |-> T.skew,
     scale |-> vec[T.scale], data |-> T.data]

\* calcMatrix(): reads the fields, writes #data
refCalcMatrix(vec, T) ==
    [vec |-> vec, o |-> [T EXCEPT !.data = calcMatrix(Deref(vec, T)).data]]

\* calcFields(): #direct and #translate become new vectors, #scale is
\* written in place (#scale.x = ..., #scale.y = ...)
refCalcFields(vec, T) ==
    The({ [vec |-> Alloc([vec EXCEPT ![T.scale] = F.scale], F.translate),
           o |-> [T EXCEPT !.direct = F.direct, !.skew = F.skew,
                           !.translate = Len(vec) + 1]]
          : F \in {calcFields(Deref(vec, T))} })

\* new WTransformMatrix3({translate, rotate, skew, scale}): the two vectors
\* passed in are kept, not copied
refNewTransform(vec, tr, rot, sk, sc) ==
    refCalcMatrix(vec, [translate |-> tr, direct |-> fromDegree(rot, One),
                        skew |-> Tan(sk), scale |-> sc,
                        data |-> <<Zero, Zero, Zero, Zero, Zero, Zero, Zero, Zero, Zero>>])

\* translateX / translateY / scaleX / scaleY write into the vector held
refTranslateX(vec, T, x) == refCalcMatrix([vec EXCEPT ![T.translate].x = x], T)
refTranslateY(vec, T, y) == refCalcMatrix([vec EXCEPT ![T.translate].y = y], T)
refScaleX(vec, T, sx) == refCalcMatrix([vec EXCEPT ![T.scale].x = sx], T)
refScaleY(vec, T, sy) == refCalcMatrix([vec EXCEPT ![T.scale].y = sy], T)
\* translate(x, y) / scale(sx, sy) hold a new vector
refTranslate(vec, T, x, y) ==
    refCalcMatrix(Alloc(vec, vec2(x, y)), [T EXCEPT !.translate = Len(vec) + 1])
refScale(vec, T, sx, sy) ==
    refCalcMatrix(Alloc(vec, vec2(sx, sy)), [T EXCEPT !.scale = Len(vec) + 1])
refRotate(vec, T, r) == refCalcMatrix(vec, [T EXCEPT !.direct = fromDegree(r, One)])
refSkew(vec, T, k) == refCalcMatrix(vec, [T EXCEPT !.skew = Tan(k)])
\* a coefficient setter: #data[i] = v, then calcFields()
refSetCoefficient(vec, T, i, v) == refCalcFields(vec, [T EXCEPT !.data[i] = v])
\* copy(): an independent deep clone
refCopy(vec, T) ==
    [vec |-> vec \o <<vec[T.translate], vec[T.scale]>>,
     o |-> [T EXCEPT !.translate = Len(vec) + 1, !.scale = Len(vec) + 2]]
\* setArray(nine floats): replace the coefficients wholesale, then calcFields
refSetArray(vec, T, arr) == refCalcFields(vec, [T EXCEPT !.data = arr])

\* applyForce / applyAcceleration / applyVelocity: Vector2.add on the vector held
refApplyForce(vec, B, f) == [vec |-> [vec EXCEPT ![B.force] = add(@, f)], o |-> B]
refApplyAcceleration(vec, B, a) ==
    [vec |-> [vec EXCEPT ![B.acceleration] = add(@, a)], o |-> B]
refApplyVelocity(vec, B, v) == [vec |-> [vec EXCEPT ![B.velocity] = add(@, v)], o |-> B]

\* move(displacement): local.translate(tx, ty) of a fresh sum
refMove(vec, B, displacement) ==
    The({ The({ [vec |-> r.vec, o |-> [B EXCEPT !.local = r.o]]
                : r \in {refTranslate(vec, B.local, p.x, p.y)} })
          : p \in {sum(vec[B.local.translate], displacement)} })

\* updateLocation(dt)
refUpdateLocation(vec, B, dt) ==
    The({ The({ The({ The({ [vec |-> g.vec,
                             o |-> [s3.o EXCEPT !.acceleration = Len(s3.vec) + 1,
                                                !.force = Len(s3.vec) + 2,
                                                !.global = g.o]]
                : g \in {refSetArray(s3.vec \o <<vec1(Zero), vec1(Zero)>>,
                                     s3.o.global, s3.o.local.data)} })
              : s3 \in {refMove(s2.vec, B, scale(s2.vec[B.velocity], dt))} })
            : s2 \in {refApplyVelocity(s1.vec, B, scale(s1.vec[B.acceleration], dt))} })
          : s1 \in {refApplyAcceleration(vec, B, scale(vec[B.force], Div(One, B.mass)))} })

\* new WPhysicsModel({location, rotation, scale, skew, mass, velocity,
\* acceleration}): velocity and acceleration are kept, location and scale
\* are handed to the local transform
refNewBody(vec, location, rot, sc, sk, mass, velocity, acceleration) ==
    The({ The({ refUpdateLocation(g.vec,
                    [local |-> l.o, global |-> g.o, velocity |-> velocity,
                     acceleration |-> acceleration, force |-> Len(vec) + 1,
                     mass |-> mass], Zero)
                : g \in {refCopy(l.vec, l.o)} })
          : l \in {refNewTransform(Alloc(vec, vec1(Zero)), location, rot, sk, sc)} })

\* Two transforms A and B made from the same translate and scale vectors
\* (addresses 1 and 2), and two bodies P and Q made from the same location,
\* scale and velocity vectors (addresses 3, 4 and 5), each with its own
\* default acceleration (6 and 7).
CallerVectors == <<V(1, 2), V(2, 1), V(0, 0), vec1(One), V(1, 0), vec1(Zero), vec1(Zero)>>
TransformNames == {"A", "B"}
BodyNames == {"P", "Q"}

\* <<method, arguments>>
TransformCalls ==
    {<<"translateX", Num(5)>>, <<"translate", V(3, 4)>>, <<"rotate", Angle35>>,
     <<"scaleY", Num(3)>>, <<"scale", V(3, 3)>>, <<"a", Num(3)>>}
BodyCalls ==
    {<<"applyVelocity", V(2, 0)>>, <<"move", V(1, 1)>>, <<"updateLocation", One>>}

TransformCall(vec, T, c) ==
    CASE c[1] = "translateX" -> refTranslateX(vec, T, c[2])
      [] c[1] = "translateY" -> refTranslateY(vec, T, c[2])
      [] c[1] = "translate" -> refTranslate(vec, T, c[2].x, c[2].y)
      [] c[1] = "rotate" -> refRotate(vec, T, c[2])
      [] c[1] = "scaleX" -> refScaleX(vec, T, c[2])
      [] c[1] = "scaleY" -> refScaleY(vec, T, c[2])
      [] c[1] = "scale" -> refScale(vec, T, c[2].x, c[2].y)
      [] c[1] = "skew" -> refSkew(vec, T, c[2])
      [] c[1] \in {"a", "b", "c", "d", "e", "f"} ->
            refSetCoefficient(vec, T, Slot(c[1]), c[2])

BodyCall(vec, B, c) ==
    CASE c[1] = "applyVelocity" -> refApplyVelocity(vec, B, c[2])
      [] c[1] = "move" -> refMove(vec, B, c[2])
      [] c[1] = "updateLocation" -> refUpdateLocation(vec, B, c[2])

\* the call reads coefficients calcFields() is computed faithfully on
FaithfulCall(T, c) ==
    c[1] \in {"a", "b", "c", "d", "e", "f"} =>
        FaithfulFields([T.data EXCEPT ![Slot(c[1])] = c[2]])

CallShared(who, c, r) ==
    /\ steps < MaxSteps
    /\ heap' = [heap EXCEPT !.vec = r.vec, ![who] = r.o]
    /\ prev' = heap
    /\ last' = [op |-> c[1], who |-> who]
    /\ steps' = steps + 1

OnTransform(who, c) ==
    /\ FaithfulCall(heap[who], c)
    /\ \E r \in {TransformCall(heap.vec, heap[who], c)} : CallShared(who, c, r)
    /\ UNCHANGED <<bodies, limit, transform, curve, matrices>>

OnBody(who, c) ==
    /\ c[1] = "updateLocation" => ExactData(heap[who].local.data)
    /\ \E r \in {BodyCall(heap.vec, heap[who], c)} : CallShared(who, c, r)
    /\ UNCHANGED <<bodies, limit, transform, curve, matrices>>

InitShared ==
    /\ \E a \in {refNewTransform(CallerVectors, 1, Angle0, Angle0, 2)} :
       \E b \in {refNewTransform(a.vec, 1, Angle0, Angle0, 2)} :
       \E p \in {refNewBody(b.vec, 3, Angle0, 4, Angle0, One, 5, 6)} :
       \E q \in {refNewBody(p.vec, 3, Angle0, 4, Angle0, One, 5, 7)} :
          heap = [vec |-> q.vec, A |-> a.o, B |-> b.o, P |-> p.o, Q |-> q.o]
    /\ last = [op |-> "new"]
    /\ prev = heap
    /\ steps = 0
    /\ NoPhysics /\ NoTransform /\ NoCurve /\ NoMatrices

NextShared ==
    \/ \E who \in TransformNames, c \in TransformCalls : OnTransform(who, c)
    \/ \E who \in BodyNames, c \in BodyCalls : OnBody(who, c)

SpecShared == InitShared /\ [][NextShared]_vars

\* ------------------------------------------------------------------ bezier

\* pos(a, b, t) = t * (3 * a * (1 - t) ** 2 + t * (3 * b * (1 - t) + t))
pos(a, b, t) ==
    The({ Mul(t, Add(Mul(Mul(Num(3), a), Mul(u, u)),
                     Mul(t, Add(Mul(Mul(Num(3), b), u), t))))
          : u \in {Sub(One, t)} })

\* the points one call of the steps-function pushes: i = 0 .. steps
Pushed(p, n) ==
    [k \in 1..(n + 1) |->
        The({ <<pos(p[1], p[3], t), pos(p[2], p[4], t)>>
              : t \in {Div(Num(k - 1), Num(n))} })]

\* Math.round(l + (r - l) / 2) for integers l <= r
MidIndex(l, r) == l + ((r - l + 1) \div 2)

\* search(l, r) of the interpolator over the array arr (indices from 0)
RECURSIVE search(_, _, _, _)
search(arr, x, l, r) ==
    IF r - l = 1
    THEN LET rX == arr[r + 1][1]
             lX == arr[l + 1][1]
             rY == arr[r + 1][2]
             lY == arr[l + 1][2]
         IN  Add(Mul(Div(Sub(x, rX), Sub(lX, rX)), lY),
                 Mul(Div(Sub(x, lX), Sub(rX, lX)), rY))
    ELSE LET i == MidIndex(l, r)
             v == arr[i + 1]
         IN  IF Lt(v[1], x) THEN search(arr, x, i, r)
             ELSE IF Gt(v[1], x) THEN search(arr, x, l, i)
             ELSE v[2]

OutOfBounds(x) == Lt(x, Zero) \/ Gt(x, One)

\* the function (x) => ... returned by a steps-call, reading the array as it
\* is when the function is called
interpolator(arr, x) ==
    IF OutOfBounds(x) THEN "Error" ELSE search(arr, x, 0, Len(arr) - 1)

\* bezier(x1, y1, x2, y2): the closure holds the control points and one
\* array arr; made lists the step counts of the interpolators returned so far
bezier(x1, y1, x2, y2) ==
    IF OutOfBounds(x1) \/ OutOfBounds(x2) THEN "Error"
    ELSE [p |-> <<x1, y1, x2, y2>>, arr |-> <<>>, made |-> <<>>]

\* control points <<x1, y1, x2, y2>>, step counts and abscissae explored
Controls ==
    {<<Zero, Zero, One, One>>,
     <<Rat(1, 4), Rat(1, 10), Rat(1, 4), One>>,
     <<Rat(1, 2), Zero, Rat(1, 2), One>>}
StepCounts == {1, 2, 3}
Abscissae == {Zero, Rat(1, 4), Rat(1, 2), Rat(3, 4), One}

\* the steps-function: push steps + 1 points, return an interpolator
Steps(n) ==
    /\ steps < MaxSteps
    /\ curve' = [curve EXCEPT !.arr = @ \o Pushed(curve.p, n),
                              !.made = Append(@, n)]
    /\ prev' = curve
    /\ last' = [op |-> "steps", n |-> n]
    /\ steps' = steps + 1
    /\ UNCHANGED <<bodies, limit, transform, heap, matrices>>

\* call the k-th interpolator returned so far
Interpolate(k, x) ==
    /\ k \in 1..Len(curve.made)
    /\ \E y \in {interpolator(curve.arr, x)} :
          last' = [op |-> "interpolate", k |-> k, x |-> x, value |-> y]
    /\ prev' = curve
    /\ UNCHANGED <<bodies, limit, transform, heap, matrices, curve, steps>>

InitBezier ==
    /\ \E c \in Controls : curve = bezier(c[1], c[2], c[3], c[4])
    /\ last = [op |-> "new"]
    /\ prev = curve
    /\ steps = 0
    /\ NoPhysics /\ NoTransform /\ NoHeap /\ NoMatrices

NextBezier ==
    \/ \E n \in StepCounts : Steps(n)
    \/ \E k \in 1..MaxSteps, x \in Abscissae : Interpolate(k, x)

SpecBezier == InitBezier /\ [][NextBezier]_vars

\* ------------------------------------------------------------------ WMatrix3

\* Arrays of numbers are objects: cols is the store of the column arrays,
\* a WMatrix3 object is [_data |-> the addresses of its three columns].
Undefined == [defined |-> FALSE]
Defined(v) == [defined |-> TRUE, value |-> v]

\* the property key a number is converted to
Key(i) == CASE i = 0 -> "0" [] i = 1 -> "1" [] i = 2 -> "2"

\* o[key] of an object: its own property, or undefined
Property(o, key) ==
    IF key \in DOMAIN o THEN Defined(o[key]) ELSE Undefined

\* new WMatrix3(data) with data a fresh array of three fresh columns
newMatrix(cols, data) ==
    [cols |-> cols \o data,
     o |-> [_data |-> <<Len(cols) + 1, Len(cols) + 2, Len(cols) + 3>>]]

IdentityData ==
    <<<<One, Zero, Zero>>, <<Zero, One, Zero>>, <<Zero, Zero, One>>>>

\* get(): copies of the three columns;  get(col, row): one entry
get(cols, o) == [c \in 1..3 |-> cols[o._data[c]]]
getEntry(cols, o, col, row) == cols[o._data[col + 1]][row + 1]

\* set(col, row, value): writes into the column array
setEntry(cols, o, col, row, value) ==
    [cols EXCEPT ![o._data[col + 1]][row + 1] = value]

\* copy(): new WMatrix3(this.get())
mCopy(cols, o) == newMatrix(cols, get(cols, o))

\* transpose(): this.set(the transposed copy), a fresh array of columns
transposed(m) == [c \in 1..3 |-> [r \in 1..3 |-> m[r][c]]]
transpose(cols, o) == newMatrix(cols, transposed(get(cols, o)))

\* mat.reduce((t, v) => t + v[col][row], v1): v is a WMatrix3 object, v[col]
\* one of its properties; reading [row] of undefined throws
RECURSIVE reduceSum(_, _, _, _, _)
reduceSum(cols, mat, col, row, t) ==
    IF mat = <<>> THEN Defined(t)
    ELSE LET vcol == Property(Head(mat), Key(col))
         IN  IF ~vcol.defined THEN [defined |-> FALSE, error |-> "TypeError"]
             ELSE reduceSum(cols, Tail(mat), col, row,
                            Add(t, cols[vcol.value][row + 1]))

\* sum(...mat): a new matrix, or the error thrown on the way
mSum(cols, o, mat) ==
    LET ret == [c \in 1..3 |-> [r \in 1..3 |->
                    reduceSum(cols, mat, c - 1, r - 1, cols[o._data[c]][r])]]
    IN  IF \E c \in 1..3, r \in 1..3 : ~ret[c][r].defined
        THEN [error |-> "TypeError"]
        ELSE The({ [error |-> "none", cols |-> n.cols, o |-> n.o]
                   : n \in {newMatrix(cols, [c \in 1..3 |-> [r \in 1..3 |->
                                                ret[c][r].value]])} })

\* matrices M and N exist from the start; R names the last matrix returned
MatrixNames == {"M", "N"}
ResultName == "R"
StartData ==
    {IdentityData,
     <<<<Num(1), Num(2), Num(3)>>, <<Num(4), Num(5), Num(6)>>,
       <<Num(7), Num(8), Num(9)>>>>}
\* <<col, row, value>> written by set
Writes3 == {<<0, 0, Num(5)>>, <<1, 2, Num(-2)>>}
\* the argument lists of sum
ArgLists ==
    {<<>>} \cup {<<a>> : a \in MatrixNames}
           \cup {<<a, b>> : a \in MatrixNames, b \in MatrixNames}

Known == DOMAIN matrices.o

MatrixCall(cols, o, what) ==
    /\ steps < MaxSteps
    /\ matrices' = [cols |-> cols, o |-> o]
    /\ prev' = matrices
    /\ last' = what
    /\ steps' = steps + 1

Set(who, w) ==
    /\ who \in Known
    /\ MatrixCall(setEntry(matrices.cols, matrices.o[who], w[1], w[2], w[3]),
                  matrices.o, [op |-> "set", who |-> who])
    /\ UNCHANGED <<bodies, limit, transform, heap, curve>>

Transpose(who) ==
    /\ who \in Known
    /\ \E n \in {transpose(matrices.cols, matrices.o[who])} :
          MatrixCall(n.cols, [matrices.o EXCEPT ![who] = n.o],
                     [op |-> "transpose", who |-> who])
    /\ UNCHANGED <<bodies, limit, transform, heap, curve>>

Copy(who) ==
    /\ who \in Known
    /\ \E n \in {mCopy(matrices.cols, matrices.o[who])} :
          MatrixCall(n.cols, (ResultName :> n.o) @@ matrices.o,
                     [op |-> "copy", who |-> who])
    /\ UNCHANGED <<bodies, limit, transform, heap, curve>>

Sum(who, args) ==
    /\ who \in MatrixNames
    /\ \E s \in {mSum(matrices.cols, matrices.o[who],
                      [i \in 1..Len(args) |-> matrices.o[args[i]]])} :
          IF s.error = "none"
          THEN MatrixCall(s.cols, (ResultName :> s.o) @@ matrices.o,
                          [op |-> "sum", who |-> who, args |-> args,
                           error |-> "none"])
          ELSE MatrixCall(matrices.cols, matrices.o,
                          [op |-> "sum", who |-> who, args |-> args,
                           error |-> s.error])
    /\ UNCHANGED <<bodies, limit, transform, heap, curve>>

InitMatrices ==
    /\ \E dm \in StartData, dn \in StartData :
       \E m \in {newMatrix(<<>>, dm)} :
       \E n \in {newMatrix(m.cols, dn)} :
          matrices = [cols |-> n.cols, o |-> [M |-> m.o, N |-> n.o]]
    /\ last = [op |-> "new"]
    /\ prev = matrices
    /\ steps = 0
    /\ NoPhysics /\ NoTransform /\ NoHeap /\ NoCurve

NextMatrices ==
    \/ \E who \in MatrixNames \cup {ResultName}, w \in Writes3 : Set(who, w)
    \/ \E who \in MatrixNames : Transpose(who)
    \/ \E who \in MatrixNames : Copy(who)
    \/ \E who \in MatrixNames, args \in ArgLists : Sum(who, args)

SpecMatrices == InitMatrices /\ [][NextMatrices]_vars

\* ------------------------------------------------------------------ claims

ZeroVec == vec1(Zero)
Who == bodies[last.who]
WhoBefore == prev[last.who]
\* local and global translation agree on both bodies, as right after updateLocation
InSync(bs) == \A b \in Names : bs[b].global.translate = bs[b].local.translate
\* what a Rope or Spring read before the call
RopeDir == dif(get_t(prev.target.global), get_t(prev.owner.global))
RopeOvershoot == Sub(size(RopeDir), last.length)
\* the vector of length n along RopeDir
Along(n) == scale(RopeDir, Div(n, size(RopeDir)))
MassSum == Add(prev.owner.mass, prev.target.mass)
Moved(b) == dif(bodies[b].local.translate, prev[b].local.translate)

\* C1: after updateLocation(dt) returns, for every dt, the body's force and
\* acceleration are (0,0), whatever calls came before.
C1_AccumulatorsCleared ==
    last.op = "updateLocation" => Who.force = ZeroVec /\ Who.acceleration = ZeroVec

C1_Witness ==
    /\ last.op = "updateLocation"
    /\ WhoBefore.force # ZeroVec
    /\ WhoBefore.acceleration # ZeroVec
    /\ Who.force = ZeroVec

\* C2: updateLocation(0) leaves the local translation and the velocity as they
\* were, whatever force and acceleration had been accumulated.
C2_ZeroDtKeepsPositionAndVelocity ==
    last.op = "updateLocation" /\ last.dt = Zero =>
        /\ Who.local.translate = WhoBefore.local.translate
        /\ Who.velocity = WhoBefore.velocity

\* C3: right after updateLocation(dt) the global transform has the raw
\* coefficients of the local one, also when a constraint had made them differ.
C3_GlobalResynchronised ==
    last.op = "updateLocation" => Who.global.data = Who.local.data

C3_Witness ==
    /\ last.op = "updateLocation"
    /\ WhoBefore.global.data # WhoBefore.local.data
    /\ Who.global.data = Who.local.data

\* C4: Rope with two finite masses, bodies in sync and farther apart than
\* length: the owner moves toward the target by overshoot*target.mass/sum, the
\* target toward the owner by overshoot*owner.mass/sum, and the distance
\* between the two positions becomes length.
C4_RopeSplitsOvershootByMass ==
    ( /\ last.op = "rope"
      /\ IsFinite(prev.owner.mass) /\ IsFinite(prev.target.mass)
      /\ InSync(prev)
      /\ Gt(size(RopeDir), last.length) ) =>
        /\ Moved("owner") = Along(Div(Mul(RopeOvershoot, prev.target.mass), MassSum))
        /\ Moved("target") = neg(Along(Div(Mul(RopeOvershoot, prev.owner.mass), MassSum)))
        /\ size(dif(bodies.target.local.translate, bodies.owner.local.translate))
              = last.length

\* masses 1 and 1, length 5, distance 9 on the x-axis: each body moves 2
C4_Witness ==
    /\ last.op = "rope" /\ last.length = Num(5)
    /\ prev.owner.mass = One /\ prev.target.mass = One
    /\ InSync(prev)
    /\ prev.owner.local.translate = V(0, 0) /\ prev.target.local.translate = V(9, 0)
    /\ bodies.owner.local.translate = V(2, 0)
    /\ bodies.target.local.translate = V(7, 0)

\* C5: Rope.solve() never moves a body of infinite mass; when exactly one body
\* is infinite the other one moves the full overshoot.
C5_RopeNeverMovesInfiniteMass ==
    last.op = "rope" =>
        /\ \A b \in Names : prev[b].mass = PInf =>
                bodies[b].local = prev[b].local /\ bodies[b].global = prev[b].global
        /\ ( /\ prev.owner.mass = PInf /\ IsFinite(prev.target.mass)
             /\ Gt(size(RopeDir), last.length) ) =>
                Moved("target") = neg(Along(RopeOvershoot))
        /\ ( /\ IsFinite(prev.owner.mass) /\ prev.target.mass = PInf
             /\ Gt(size(RopeDir), last.length) ) =>
                Moved("owner") = Along(RopeOvershoot)

\* owner infinite, target mass 1, distance 9, length 5: the target moves 4
C5_Witness ==
    /\ last.op = "rope" /\ last.length = Num(5)
    /\ prev.owner.mass = PInf /\ prev.target.mass = One
    /\ prev.owner.local.translate = V(0, 0) /\ prev.target.local.translate = V(9, 0)
    /\ bodies.owner.local.translate = V(0, 0)
    /\ bodies.target.local.translate = V(5, 0)

SpringDiff == dif(get_t(prev.owner.global), get_t(prev.target.global))
\* the force the claim names: diff * (ks * (dl - L0) / dl)
SpringF ==
    scale(SpringDiff, Div(Mul(last.ks, Sub(size(SpringDiff), last.L0)), size(SpringDiff)))
SpringKeepsTheRest ==
    \A b \in Names :
        /\ bodies[b].local = prev[b].local /\ bodies[b].global = prev[b].global
        /\ bodies[b].velocity = prev[b].velocity
        /\ bodies[b].acceleration = prev[b].acceleration

\* C6 as stated: Spring.solve() adds F = diff*(ks*(dl-L0)/dl) to the target's
\* force and -F to the owner's, and changes nothing else.
C6_SpringForceAsStated ==
    last.op = "spring" =>
        /\ bodies.target.force = add(prev.target.force, SpringF)
        /\ bodies.owner.force = add(prev.owner.force, neg(SpringF))
        /\ SpringKeepsTheRest

\* C6 amended: the same with F = (0,0) when dl = 0 (the code divides by
\* Infinity there); exactly L0 apart both bodies receive zero force.
C6_SpringForce ==
    last.op = "spring" =>
        LET F == IF size(SpringDiff) = Zero THEN ZeroVec ELSE SpringF
        IN  /\ bodies.target.force = add(prev.target.force, F)
            /\ bodies.owner.force = add(prev.owner.force, neg(F))
            /\ SpringKeepsTheRest
            /\ size(SpringDiff) = last.L0 =>
                  \A b \in Names : bodies[b].force = prev[b].force

\* L0 = 10, ks = 2, the bodies exactly 10 apart
C6_Witness ==
    /\ last.op = "spring" /\ last.L0 = Num(10) /\ last.ks = Num(2)
    /\ size(SpringDiff) = Num(10)
    /\ bodies.owner.force = prev.owner.force
    /\ bodies.target.force = prev.target.force

\* C7: CopyTransforms with mixMode 'replace': afterwards owner.global has the
\* nine coefficients of the selected target transform; the target and
\* owner.local are as before.
C7_ReplaceCopiesSelectedTarget ==
    last.op = "copyTransforms" /\ last.mixMode = "replace" =>
        /\ bodies.owner.global.data =
              (IF last.targetRelativity = "local" THEN prev.target.local
                                                  ELSE prev.target.global).data
        /\ bodies.target = prev.target
        /\ bodies.owner.local = prev.owner.local

C7_Witness ==
    /\ last.op = "copyTransforms" /\ last.mixMode = "replace"
    /\ last.targetRelativity = "local"
    /\ prev.target.local.data # prev.target.global.data
    /\ prev.owner.global.data # prev.target.local.data
    /\ bodies.owner.global.data = prev.target.local.data

\* C8: CopyTransforms with a mixMode outside replace, split, beforeFull,
\* afterFull throws 'Invalid mix mode' and leaves owner.global (and all else)
\* as it was.
C8_InvalidMixModeThrows ==
    ( /\ last.op = "copyTransforms"
      /\ last.mixMode \notin {"replace", "split", "beforeFull", "afterFull"} ) =>
        /\ last.error = "Invalid mix mode"
        /\ bodies = prev

C8_Witness ==
    /\ last.op = "copyTransforms" /\ last.mixMode = "mix"
    /\ last.error = "Invalid mix mode"
    /\ prev.owner.global.data # prev.target.global.data
    /\ bodies.owner.global = prev.owner.global

\* the position LimitLocationConstraint.solve() read, and where it left the owner
LimitRead == Select(prev.owner, limit.ownerRelativity).translate
LimitResult == bodies.owner.global.translate

\* C9: LimitLocation.solve() with influence 0 leaves owner.global.t as it
\* was; with influence 1 and the owner's position outside [min, max] on an
\* axis, owner.global.t ends exactly on the nearest bound of that axis, for
\* either ownerRelativity.
C9_LimitLocationClamps ==
    last.op = "limitLocation" =>
        /\ limit.influence = Zero => LimitResult = prev.owner.global.translate
        /\ limit.influence = One =>
              /\ Lt(LimitRead.x, limit.min.x) => LimitResult.x = limit.min.x
              /\ Gt(LimitRead.x, limit.max.x) => LimitResult.x = limit.max.x
              /\ Lt(LimitRead.y, limit.min.y) => LimitResult.y = limit.min.y
              /\ Gt(LimitRead.y, limit.max.y) => LimitResult.y = limit.max.y

\* C10: the influence a LimitLocation solve() has used lies in [0, 1],
\* whatever influence the constraint was constructed with and whatever was
\* assigned to it since.
C10_InfluenceInUnitInterval ==
    last.op = "limitLocation" => Le(Zero, limit.influence) /\ Le(limit.influence, One)

\* the coefficients (indices of #data) that a canonical parameter enters
Depends(op) ==
    CASE op = "translateX" -> {7}
      [] op = "translateY" -> {8}
      [] op = "translate" -> {7, 8}
      [] op = "rotate" -> {1, 2, 4, 5}
      [] op = "scaleX" -> {1, 2}
      [] op \in {"scaleY", "skew"} -> {4, 5}
      [] op = "scale" -> {1, 2, 4, 5}

\* C11: after every mutator of a transform - canonical or a coefficient
\* write - the coefficients are calcMatrix of the canonical parameters, and
\* a canonical mutator changes only the coefficients its parameter enters.
C11_CoefficientsFollowParameters ==
    /\ last.op \in CanonicalOps \cup CoefficientOps =>
            transform.data = calcMatrix(transform).data
    /\ last.op \in CanonicalOps =>
            \A i \in (1..9) \ Depends(last.op) : transform.data[i] = prev.data[i]

\* the canonical parameters of a transform
Parameters(T) == <<T.translate, T.direct, T.skew, T.scale>>
\* the coefficients of T are calcMatrix of its parameters; the parameters are
\* numbers, and the skew tangent is finite (the skew angle is inside
\* (-pi/2, pi/2))
FromParameters(T) ==
    /\ T.data = calcMatrix(T).data
    /\ IsFinite(T.skew)
    /\ \A v \in {T.translate, T.direct, T.scale} : IsFinite(v.x) /\ IsFinite(v.y)

\* C12 as stated: calcMatrix and then calcFields returns the canonical
\* parameters it started from when both scale components are >= 0.
C12_FieldsOfMatrixAsStated ==
    ( /\ last.op = "calcFields"
      /\ FromParameters(prev)
      /\ Le(Zero, prev.scale.x) /\ Le(Zero, prev.scale.y) ) =>
        Parameters(transform) = Parameters(prev)

\* C12: calcMatrix and then calcFields returns the canonical parameters it
\* started from when both scale components are > 0.
C12_FieldsOfMatrix ==
    ( /\ last.op = "calcFields"
      /\ FromParameters(prev)
      /\ Gt(prev.scale.x, Zero) /\ Gt(prev.scale.y, Zero) ) =>
        Parameters(transform) = Parameters(prev)

\* a rotated, skewed and unevenly scaled transform is recovered
C12_Witness ==
    /\ last.op = "calcFields"
    /\ FromParameters(prev)
    /\ Gt(prev.scale.x, Zero) /\ Gt(prev.scale.y, Zero)
    /\ prev.skew # Zero /\ prev.direct # Angle0 /\ prev.scale.x # prev.scale.y
    /\ Parameters(transform) = Parameters(prev)

FiniteVec(v) == IsFinite(v.x) /\ IsFinite(v.y)
\* no NaN or Infinity in any force, acceleration or translation
AllFinite(bs) ==
    \A b \in Names :
        /\ FiniteVec(bs[b].force) /\ FiniteVec(bs[b].acceleration)
        /\ FiniteVec(bs[b].local.translate) /\ FiniteVec(bs[b].global.translate)
\* the two translations the constraint called last read before the call
ReadOwner ==
    IF last.op = "limitDistance" THEN Select(prev.owner, last.ownerRelativity).translate
    ELSE prev.owner.global.translate
ReadTarget ==
    IF last.op = "limitDistance" THEN Select(prev.target, last.targetRelativity).translate
    ELSE prev.target.global.translate
SamePositions ==
    \A b \in Names :
        /\ bodies[b].local.translate = prev[b].local.translate
        /\ bodies[b].global.translate = prev[b].global.translate

\* C13: Spring, Rope and LimitDistance solve() on bodies whose translations
\* coincide write no NaN or Infinity into a force, an acceleration or a
\* translation and leave both positions as they were.
C13_ZeroLengthIsHarmless ==
    ( /\ last.op \in {"spring", "rope", "limitDistance"}
      /\ AllFinite(prev)
      /\ ReadOwner = ReadTarget ) =>
        AllFinite(bodies) /\ SamePositions

\* the two positions (local translations) are at most len apart
WithinLength(bs, len) ==
    LET d == dif(bs.target.local.translate, bs.owner.local.translate)
    IN  Le(Add(Mul(d.x, d.x), Mul(d.y, d.y)), Mul(len, len))

\* C14: Rope.solve() on bodies that are at most length apart - as they are
\* right after a solve() that pulled them to that distance - changes
\* neither body's position nor its acceleration.
C14_RopeIsStable ==
    ( /\ last.op = "rope"
      /\ AllFinite(prev)
      /\ WithinLength(prev, last.length) ) =>
        \A b \in Names :
            /\ bodies[b].local.translate = prev[b].local.translate
            /\ bodies[b].acceleration = prev[b].acceleration

\* what LimitDistance.solve() read before the call
DistanceDir == dif(ReadTarget, ReadOwner)
Violation == Sub(size(DistanceDir), last.distance)
\* the square of the distance from owner.global.t to the selected target translation
GapSquared ==
    LET d == dif(ReadTarget, bodies.owner.global.translate)
    IN  Add(Mul(d.x, d.x), Mul(d.y, d.y))

\* C15: LimitDistance.solve(), when the violation currentDistance - distance
\* breaches the region, moves owner.global.t along the owner-to-target
\* direction by the violation, and owner.global.t is then at `distance` from
\* the selected target translation; otherwise owner.global is unchanged; the
\* target and owner.local are never modified.
C15_LimitDistanceCorrects ==
    ( last.op = "limitDistance" /\ AllFinite(prev) ) =>
        /\ bodies.target = prev.target
        /\ bodies.owner.local = prev.owner.local
        /\ IF Breaches(last.clampRegion, Violation)
           THEN /\ bodies.owner.global.translate =
                      sum(prev.owner.global.translate,
                          scale(DistanceDir, Div(Violation, size(DistanceDir))))
                /\ GapSquared = Mul(last.distance, last.distance)
           ELSE bodies.owner.global = prev.owner.global

\* the object made from the same vectors as this one
Twin(who) ==
    CASE who = "A" -> "B" [] who = "B" -> "A" [] who = "P" -> "Q" [] who = "Q" -> "P"
\* what can be observed of an object: parameters and coefficients of a
\* transform; those of both transforms of a body, and its velocity
Observed(h, who) ==
    IF who \in TransformNames THEN Deref(h.vec, h[who])
    ELSE [local |-> Deref(h.vec, h[who].local), global |-> Deref(h.vec, h[who].global),
          velocity |-> h.vec[h[who].velocity]]

\* C16: a call on a transform or a body changes nothing that can be observed
\* of the transform or body made from the same Vector2 arguments, and
\* leaves the caller's Vector2 objects as they were.
C16_NoSharedState ==
    last.op # "new" =>
        /\ Observed(heap, Twin(last.who)) = Observed(prev, Twin(last.who))
        /\ \A a \in 1..Len(CallerVectors) : heap.vec[a] = prev.vec[a]


\* what bezier(x1, y1, x2, y2)(n) of a fresh bezier computes at x
Fresh(n, x) == interpolator(Pushed(curve.p, n), x)

\* C17: every interpolator a bezier(...) closure has returned computes, at
\* every x, what the interpolator of a fresh bezier(...) with the same
\* control points and its own step count computes, however many times the
\* steps-function has been called in between.
C17_InterpolatorOfStepsOnly ==
    last.op = "interpolate" =>
        last.value = Fresh(curve.made[last.k], last.x)


\* the entries of the named matrix in a store
Entries(h, name) == get(h.cols, h.o[name])
\* t + the entries of the argument matrices at (c, r), as before the call
RECURSIVE EntrySum(_, _, _, _)
EntrySum(args, c, r, t) ==
    IF args = <<>> THEN t
    ELSE EntrySum(Tail(args), c, r, Add(t, Entries(prev, Head(args))[c][r]))

\* C18: sum(m1, ..., mn) raises no error, returns a new matrix holding at
\* every (col, row) the receiver's entry plus the arguments' entries, and
\* leaves receiver and arguments as they were; the matrix returned shares
\* no column with another matrix, so a later set on one does not show in
\* the other.
C18_SumIsEntrywise ==
    /\ last.op = "sum" =>
          /\ last.error = "none"
          /\ \A c \in 1..3, r \in 1..3 :
                Entries(matrices, ResultName)[c][r] =
                    EntrySum(last.args, c, r, Entries(prev, last.who)[c][r])
          /\ \A n \in MatrixNames : Entries(matrices, n) = Entries(prev, n)
    /\ last.op = "set" =>
          \A n \in Known \ {last.who} : Entries(matrices, n) = Entries(prev, n)

====
